---- MODULE Spec2Model ----
(***************************************************************************)
(* Model of the route-planning core of maritime_weather:                   *)
(* routing/pathfinder.py (MaritimePathFinder) and the shared instance      *)
(* path_finder of app.py.                                                  *)
(*                                                                         *)
(* Numbers.  The code works in floating point; the model works in exact    *)
(* fixed point.                                                            *)
(*   - A coordinate is <<lat, lon>> in whole degrees.                      *)
(*   - A distance is a whole number of units of 100 km.  geopy's geodesic  *)
(*     (an external library) is modelled by the taxicab metric on degrees, *)
(*     one degree being one unit: it is symmetric, zero exactly on equal   *)
(*     points, and satisfies the triangle inequality, as geodesic does.    *)
(*   - A risk r is stored as r * RiskScale, a cost c (km weighted by risk) *)
(*     as c * RiskScale, and an average risk as r * RiskScale * AvgScale;  *)
(*     every division of the code is exact in these units.                 *)
(***************************************************************************)
EXTENDS Integers, Sequences, FiniteSets, TLC

\* Largest number of waypoints of a find_path call.
MaxWaypoints == 2

\* Largest number of points of any graph: start, waypoints, end.
MaxPoints == MaxWaypoints + 2

\* 2 (mean of two node risks) * 10 (risk_level in tenths) * 25 * 9 * 16 (the
\* squares of the three radii): every node and edge risk is a whole number.
RiskScale == 2 * 10 * (25 * 9 * 16)

RECURSIVE Factorial(_)
Factorial(n) == IF n <= 1 THEN 1 ELSE n * Factorial(n - 1)

\* A path has at most MaxPoints - 1 edges: the mean over them is whole.
AvgScale == Factorial(MaxPoints - 1)

Max2(a, b) == IF a >= b THEN a ELSE b
Min2(a, b) == IF a <= b THEN a ELSE b
Abs(x) == IF x >= 0 THEN x ELSE 0 - x

(***************************************************************************)
(* MaritimePathFinder._initialize_risk_zones: radius in units of 100 km,   *)
(* risk_level in tenths.                                                   *)
(***************************************************************************)
risk_zones ==
    << [coordinates |-> <<20, -40>>, radius |-> 5, risk_level |-> 8],
       [coordinates |-> <<10, -20>>, radius |-> 3, risk_level |-> 6],
       [coordinates |-> <<30, -60>>, radius |-> 4, risk_level |-> 7] >>

\* geopy.distance.geodesic(p, q).kilometers, in units of 100 km.
geodesic(p, q) == Abs(p[1] - q[1]) + Abs(p[2] - q[2])

\* ZoneRisk with the falloff linear in the distance, the square forgotten.
ZoneRiskLinear(zone, distance) ==
    (zone.risk_level * (RiskScale \div 10) * (zone.radius - distance))
    \div zone.radius

\* risk_level * (1 - (distance / radius) ** 2), times RiskScale.
ZoneRisk(zone, distance) ==
    (zone.risk_level * (RiskScale \div 10)
       * (zone.radius * zone.radius - distance * distance))
    \div (zone.radius * zone.radius)

\* The loop of calculate_risk over risk_zones[k..], total_risk so far.
RECURSIVE RiskLoop(_, _, _)
RiskLoop(point, k, total_risk) ==
    IF k > Len(risk_zones) THEN total_risk
    ELSE LET zone == risk_zones[k]
             distance == geodesic(point, zone.coordinates)
         IN  IF distance < zone.radius
             THEN RiskLoop(point, k + 1, Max2(total_risk, ZoneRisk(zone, distance)))
             ELSE RiskLoop(point, k + 1, total_risk)

\* calculate_risk measuring from (lon, lat), the order of the node's pos.
calculate_riskSwapped(point) ==
    Min2(RiskLoop(<<point[2], point[1]>>, 1, 0), RiskScale)

calculate_risk(point) == Min2(RiskLoop(point, 1, 0), RiskScale)

(***************************************************************************)
(* networkx.Graph, as far as the code uses it.  node: node -> attributes   *)
(* (G._node); adj: node -> its neighbours in insertion order (the key      *)
(* order of G._adj[node], which the search iterates); edge: <<u, v>> with  *)
(* u < v -> attributes (the one dict shared by G._adj[u][v], G._adj[v][u]).*)
(***************************************************************************)
EmptyGraph == [node |-> << >>, adj |-> << >>, edge |-> << >>]

EdgeKey(u, v) == IF u <= v THEN <<u, v>> ELSE <<v, u>>

HasNode(G, u) == u \in DOMAIN G.node

\* GraphClear that leaves the graph as it is.
GraphClearKeeps(G) == G

\* Graph.clear()
GraphClear(G) == EmptyGraph

\* Graph.add_node(u, **attrs): a new node gets an empty adjacency, an
\* existing one keeps its adjacency and has its attributes updated.
AddNode(G, u, attrs) ==
    [G EXCEPT !.node = (u :> attrs) @@ G.node,
              !.adj  = G.adj @@ (u :> << >>)]

InSeq(x, s) == \E k \in 1..Len(s) : s[k] = x

\* Graph.add_edge(u, v, **attrs) between two nodes of the graph.
AddEdge(G, u, v, attrs) ==
    [G EXCEPT !.adj  = [n \in DOMAIN G.adj |->
                          IF n = u /\ ~InSeq(v, G.adj[u]) THEN Append(G.adj[u], v)
                          ELSE IF n = v /\ ~InSeq(u, G.adj[v]) THEN Append(G.adj[v], u)
                          ELSE G.adj[n]],
              !.edge = (EdgeKey(u, v) :> attrs) @@ G.edge]

\* create_route_network, lines 35-37: the node of index i (points is
\* 1-based here, so the point is points[i + 1]).
NodeAttrs(points, i) ==
    LET lat == points[i + 1][1]
        lon == points[i + 1][2]
    IN  [pos |-> <<lon, lat>>, risk |-> calculate_risk(<<lat, lon>>),
         lat |-> lat, lon |-> lon]

\* EdgeAttrs with the two risk multipliers exchanged.
EdgeAttrsSwapped(G, points, i, j) ==
    LET distance == geodesic(points[i + 1], points[j + 1])
        risk == (G.node[i].risk + G.node[j].risk) \div 2
    IN  [distance    |-> distance,
         risk        |-> risk,
         fastest     |-> distance * RiskScale,
         safest      |-> distance * (RiskScale + risk),
         recommended |-> distance * (RiskScale + risk * 5)]

\* EdgeAttrs with the greater of the two node risks as the edge risk.
EdgeAttrsMaxRisk(G, points, i, j) ==
    LET distance == geodesic(points[i + 1], points[j + 1])
        risk == Max2(G.node[i].risk, G.node[j].risk)
    IN  [distance    |-> distance,
         risk        |-> risk,
         fastest     |-> distance * RiskScale,
         safest      |-> distance * (RiskScale + risk * 5),
         recommended |-> distance * (RiskScale + risk)]

\* create_route_network, lines 46-60: the attributes of the edge (i, j).
EdgeAttrs(G, points, i, j) ==
    LET distance == geodesic(points[i + 1], points[j + 1])
        risk == (G.node[i].risk + G.node[j].risk) \div 2
    IN  [distance    |-> distance,
         risk        |-> risk,
         fastest     |-> distance * RiskScale,
         safest      |-> distance * (RiskScale + risk * 5),
         recommended |-> distance * (RiskScale + risk)]

\* The loop of lines 35-37 from index i on.
RECURSIVE AddNodes(_, _, _)
AddNodes(G, points, i) ==
    IF i >= Len(points) THEN G
    ELSE AddNodes(AddNode(G, i, NodeAttrs(points, i)), points, i + 1)

\* AddEdges with the inner loop starting one index too far.
RECURSIVE AddEdgesSkipsNeighbour(_, _, _, _)
AddEdgesSkipsNeighbour(G, points, i, j) ==
    IF i >= Len(points) THEN G
    ELSE IF j >= Len(points) THEN AddEdgesSkipsNeighbour(G, points, i + 1, i + 3)
    ELSE AddEdgesSkipsNeighbour(AddEdge(G, i, j, EdgeAttrs(G, points, i, j)),
                                points, i, j + 1)

\* The double loop of lines 40-60 from the pair (i, j) on.
RECURSIVE AddEdges(_, _, _, _)
AddEdges(G, points, i, j) ==
    IF i >= Len(points) THEN G
    ELSE IF j >= Len(points) THEN AddEdges(G, points, i + 1, i + 2)
    ELSE AddEdges(AddEdge(G, i, j, EdgeAttrs(G, points, i, j)), points, i, j + 1)

\* create_route_network(points) run alone on an instance whose graph is G:
\* the graph it leaves in self.graph and returns.
create_route_network(G, points) ==
    AddEdges(AddNodes(GraphClear(G), points, 0), points, 0, 1)

(***************************************************************************)
(* nx.shortest_path(G, source, target, weight): with a weight and both     *)
(* ends given, networkx runs bidirectional_dijkstra.  dists, paths, fringe *)
(* and seen are pairs, forward then backward; a fringe is the set of the   *)
(* heap's entries <<distance, count, node>>, the least being popped.       *)
(***************************************************************************)
Reverse(s) == [k \in 1..Len(s) |-> s[Len(s) + 1 - k]]

HeapLess(a, b) == a[1] < b[1] \/ (a[1] = b[1] /\ a[2] < b[2])

HeapMin(h) == CHOOSE a \in h : \A b \in h : a = b \/ HeapLess(a, b)

\* The for loop over the neighbours of v, from the k-th neighbour on.
RECURSIVE Relax(_, _, _, _, _, _)
Relax(G, weight, st, v, dir, k) ==
    IF k > Len(G.adj[v]) \/ st.err # "none" THEN st
    ELSE LET d == dir + 1
             w == G.adj[v][k]
             cost == G.edge[EdgeKey(v, w)][weight]
             vwLength == st.dists[d][v] + cost
         IN  IF w \in DOMAIN st.dists[d]
             THEN IF vwLength < st.dists[d][w]
                  THEN [st EXCEPT !.err = "ValueError"]
                  ELSE Relax(G, weight, st, v, dir, k + 1)
             ELSE IF w \notin DOMAIN st.seen[d] \/ vwLength < st.seen[d][w]
             THEN LET st1 == [st EXCEPT
                                 !.seen[d]   = (w :> vwLength) @@ @,
                                 !.fringe[d] = @ \cup {<<vwLength, st.c, w>>},
                                 !.c         = @ + 1,
                                 !.paths[d]  = (w :> Append(st.paths[d][v], w)) @@ @]
                      both == w \in DOMAIN st1.seen[1] /\ w \in DOMAIN st1.seen[2]
                      totaldist == st1.seen[1][w] + st1.seen[2][w]
                      st2 == IF both /\ (st1.finalpath = << >> \/ st1.finaldist > totaldist)
                             THEN [st1 EXCEPT
                                     !.finaldist = totaldist,
                                     !.finalpath = st1.paths[1][w]
                                                   \o Tail(Reverse(st1.paths[2][w]))]
                             ELSE st1
                  IN  Relax(G, weight, st2, v, dir, k + 1)
             ELSE Relax(G, weight, st, v, dir, k + 1)

\* The while loop of bidirectional_dijkstra.
RECURSIVE BiLoop(_, _, _)
BiLoop(G, weight, st) ==
    IF st.fringe[1] = {} \/ st.fringe[2] = {}
    THEN [err |-> "NetworkXNoPath", path |-> << >>]
    ELSE LET dir == 1 - st.dir
             d == dir + 1
             top == HeapMin(st.fringe[d])
             st1 == [st EXCEPT !.dir = dir, !.fringe[d] = @ \ {top}]
             v == top[3]
         IN  IF v \in DOMAIN st1.dists[d] THEN BiLoop(G, weight, st1)
             ELSE LET st2 == [st1 EXCEPT !.dists[d] = (v :> top[1]) @@ @]
                  IN  IF v \in DOMAIN st2.dists[3 - d]
                      THEN [err |-> "none", path |-> st2.finalpath]
                      ELSE LET st3 == Relax(G, weight, st2, v, dir, 1)
                           IN  IF st3.err # "none"
                               THEN [err |-> st3.err, path |-> << >>]
                               ELSE BiLoop(G, weight, st3)

shortest_path(G, source, target, weight) ==
    IF ~HasNode(G, source) \/ ~HasNode(G, target)
    THEN [err |-> "NodeNotFound", path |-> << >>]
    ELSE IF source = target THEN [err |-> "none", path |-> <<source>>]
    ELSE BiLoop(G, weight,
                [dists     |-> << << >>, << >> >>,
                 paths     |-> << (source :> <<source>>), (target :> <<target>>) >>,
                 fringe    |-> << {<<0, 0, source>>}, {<<0, 1, target>>} >>,
                 seen      |-> << (source :> 0), (target :> 0) >>,
                 c         |-> 2,
                 finalpath |-> << >>,
                 finaldist |-> 0,
                 dir       |-> 1,
                 err       |-> "none"])

(***************************************************************************)
(* find_path.                                                              *)
(***************************************************************************)
weight_map ==
    ("fastest" :> "fastest") @@ ("safest" :> "safest")
        @@ ("recommended" :> "recommended")

\* WeightKey with the keys of 'fastest' and 'safest' exchanged.
WeightKeyCrossed(path_type) ==
    IF path_type = "fastest" THEN "safest"
    ELSE IF path_type = "safest" THEN "fastest"
    ELSE IF path_type \in DOMAIN weight_map THEN weight_map[path_type]
    ELSE "recommended"

\* WeightKey that searches a fastest route on the safest cost.
WeightKeyFastestIsSafest(path_type) ==
    IF path_type = "fastest" THEN "safest"
    ELSE IF path_type \in DOMAIN weight_map THEN weight_map[path_type]
    ELSE "recommended"

\* WeightKey with 'safest' as the default.
WeightKeyDefaultSafest(path_type) ==
    IF path_type \in DOMAIN weight_map THEN weight_map[path_type]
    ELSE "safest"

\* WeightKey that ignores the path_type it is given.
WeightKeyIgnoresType(path_type) == "recommended"

\* WeightKey with 'fastest' as the default.
WeightKeyDefaultFastest(path_type) ==
    IF path_type \in DOMAIN weight_map THEN weight_map[path_type]
    ELSE "fastest"

\* weight_map.get(path_type, 'recommended')
WeightKey(path_type) ==
    IF path_type \in DOMAIN weight_map THEN weight_map[path_type]
    ELSE "recommended"

\* AllPoints with the end put before the waypoints.
AllPointsEndFirst(start, waypoints, end) == <<start, end>> \o waypoints

\* [start] + waypoints + [end]
AllPoints(start, waypoints, end) == <<start>> \o waypoints \o <<end>>

\* sum(self.graph.edges[node_path[i], node_path[i+1]][attr] for i in ...),
\* from the k-th edge of the path on.
RECURSIVE PathSum(_, _, _, _)
PathSum(G, node_path, attr, k) ==
    IF k >= Len(node_path) THEN 0
    ELSE G.edge[EdgeKey(node_path[k], node_path[k + 1])][attr]
         + PathSum(G, node_path, attr, k + 1)

\* What a call that raises leaves its caller with.
Raised(error, waypoints, path_type) ==
    [status |-> error, path |-> << >>, distance_km |-> 0, average_risk |-> 0,
     waypoints |-> waypoints, path_type |-> path_type, node_path |-> << >>]

\* FinishPath that answers a failed search with an empty route.
FinishPathSwallowsNoPath(G, all_points, waypoints, path_type) ==
    LET found == shortest_path(G, 0, Len(all_points) - 1, WeightKey(path_type))
        node_path == found.path
    IN  IF found.err = "NetworkXNoPath"
        THEN [Raised("ok", waypoints, path_type) EXCEPT !.path = << >>]
        ELSE IF found.err # "none"
        THEN Raised(found.err, waypoints, path_type)
        ELSE IF \E k \in 1..Len(node_path) : node_path[k] >= Len(all_points)
        THEN Raised("IndexError", waypoints, path_type)
        ELSE [status       |-> "ok",
              path         |-> [k \in 1..Len(node_path) |-> all_points[node_path[k] + 1]],
              distance_km  |-> PathSum(G, node_path, "distance", 1),
              average_risk |-> (PathSum(G, node_path, "risk", 1) * AvgScale)
                               \div Max2(1, Len(node_path) - 1),
              waypoints    |-> waypoints,
              path_type    |-> path_type,
              node_path    |-> node_path]

\* FinishPath that counts the nodes of node_path from one.
FinishPathCountsFromOne(G, all_points, waypoints, path_type) ==
    LET found == shortest_path(G, 0, Len(all_points) - 1, WeightKey(path_type))
        node_path == found.path
    IN  IF found.err = "NetworkXNoPath"
        THEN Raised("ValueError", waypoints, path_type)
        ELSE IF found.err # "none"
        THEN Raised(found.err, waypoints, path_type)
        ELSE IF \E k \in 1..Len(node_path) : node_path[k] >= Len(all_points)
        THEN Raised("IndexError", waypoints, path_type)
        ELSE [status       |-> "ok",
              path         |-> [k \in 1..Len(node_path) |-> all_points[node_path[k] + 1]],
              distance_km  |-> PathSum(G, node_path, "distance", 1),
              average_risk |-> (PathSum(G, node_path, "risk", 1) * AvgScale)
                               \div Max2(1, Len(node_path) - 1),
              waypoints    |-> waypoints,
              path_type    |-> path_type,
              node_path    |-> [k \in 1..Len(node_path) |-> node_path[k] + 1]]

\* FinishPath with distance_km summed over the selected cost, not the distance.
FinishPathSumsCost(G, all_points, waypoints, path_type) ==
    LET found == shortest_path(G, 0, Len(all_points) - 1, WeightKey(path_type))
        node_path == found.path
    IN  IF found.err = "NetworkXNoPath"
        THEN Raised("ValueError", waypoints, path_type)
        ELSE IF found.err # "none"
        THEN Raised(found.err, waypoints, path_type)
        ELSE IF \E k \in 1..Len(node_path) : node_path[k] >= Len(all_points)
        THEN Raised("IndexError", waypoints, path_type)
        ELSE [status       |-> "ok",
              path         |-> [k \in 1..Len(node_path) |-> all_points[node_path[k] + 1]],
              distance_km  |-> PathSum(G, node_path, WeightKey(path_type), 1)
                               \div RiskScale,
              average_risk |-> (PathSum(G, node_path, "risk", 1) * AvgScale)
                               \div Max2(1, Len(node_path) - 1),
              waypoints    |-> waypoints,
              path_type    |-> path_type,
              node_path    |-> node_path]

\* Lines 91-127 of find_path, run on the graph G that is in self.graph.
FinishPath(G, all_points, waypoints, path_type) ==
    LET found == shortest_path(G, 0, Len(all_points) - 1, WeightKey(path_type))
        node_path == found.path
    IN  IF found.err = "NetworkXNoPath"
        THEN Raised("ValueError", waypoints, path_type)
        ELSE IF found.err # "none"
        THEN Raised(found.err, waypoints, path_type)
        ELSE IF \E k \in 1..Len(node_path) : node_path[k] >= Len(all_points)
        THEN Raised("IndexError", waypoints, path_type)
        ELSE [status       |-> "ok",
              path         |-> [k \in 1..Len(node_path) |-> all_points[node_path[k] + 1]],
              distance_km  |-> PathSum(G, node_path, "distance", 1),
              average_risk |-> (PathSum(G, node_path, "risk", 1) * AvgScale)
                               \div Max2(1, Len(node_path) - 1),
              waypoints    |-> waypoints,
              path_type    |-> path_type,
              node_path    |-> node_path]

(***************************************************************************)
(* The state: the one MaritimePathFinder instance of app.py (path_finder)  *)
(* and its callers.                                                        *)
(***************************************************************************)
VARIABLES
    graph,      \* self.graph of the instance
    call,       \* the last call made on the instance, with its arguments
    result,     \* what that call returned or raised
    held,       \* a caller's reference to the graph create_route_network returned
    memo,       \* an earlier find_path call and its result, kept by a caller
    thr         \* the request threads that are inside find_path

vars == <<graph, call, result, held, memo, thr>>

\* Coordinates the callers pass.  EndCoords, for start and end: the centre of
\* the first risk zone (risk 0.8) and a point outside every zone.  WayCoords,
\* for waypoints: a point inside the first zone on the straight line between
\* the two, and a point outside every zone off that line.
EndCoords == { <<20, -40>>, <<20, -30>> }

WayCoords == { <<20, -36>>, <<21, -35>> }

KnownTypes == {"fastest", "safest", "recommended"}

\* 'optimal' is what update_map passes when no route type is selected.
PathTypes == KnownTypes \cup {"optimal"}

SeqsUpTo(S, n) == UNION { [1..k -> S] : k \in 0..n }

NoCall ==
    [op |-> "none", start |-> << >>, end |-> << >>, waypoints |-> << >>,
     path_type |-> "", points |-> << >>]

NoResult == Raised("none", << >>, "")

NoGraph == [ref |-> "none", snapshot |-> EmptyGraph]

NoMemo == [call |-> NoCall, result |-> NoResult, more |-> FALSE, fewer |-> FALSE]

Threads == {1, 2}

Idle ==
    [pc |-> "idle", start |-> << >>, end |-> << >>, waypoints |-> << >>,
     path_type |-> "", all_points |-> << >>, i |-> 0, j |-> 0,
     result |-> NoResult]

\* path_finder = MaritimePathFinder(), no request being served.
Init ==
    /\ graph = EmptyGraph
    /\ call = NoCall
    /\ result = NoResult
    /\ held = NoGraph
    /\ memo = NoMemo
    /\ thr = [t \in Threads |-> Idle]

\* find_path(start, end, waypoints, path_type), run from call to return with
\* no other call on the instance in between.
FindPathOver(Ends, Ways, maxw, Types) ==
    \E start \in Ends, end \in Ends, waypoints \in SeqsUpTo(Ways, maxw) :
        LET all_points == AllPoints(start, waypoints, end)
            G == create_route_network(graph, all_points)
        IN  \E path_type \in Types :
                /\ graph' = G
                /\ result' = FinishPath(G, all_points, waypoints, path_type)
                /\ call' = [op |-> "find_path", start |-> start, end |-> end,
                            waypoints |-> waypoints, path_type |-> path_type,
                            points |-> all_points]

\* create_route_network(points) called directly: it returns self.graph.
CreateRouteNetworkOver(Ends, Ways, maxw) ==
    \E start \in Ends, end \in Ends, waypoints \in SeqsUpTo(Ways, maxw) :
        LET points == <<start>> \o waypoints \o <<end>>
        IN  /\ graph' = create_route_network(graph, points)
            /\ result' = [status |-> "ok", returned |-> "self.graph"]
            /\ call' = [op |-> "create_route_network", start |-> << >>,
                        end |-> << >>, waypoints |-> << >>, path_type |-> "",
                        points |-> points]

FindPath ==
    /\ FindPathOver(EndCoords, WayCoords, MaxWaypoints, PathTypes)
    /\ UNCHANGED <<held, memo, thr>>

CreateRouteNetwork ==
    /\ CreateRouteNetworkOver(EndCoords, WayCoords, MaxWaypoints)
    /\ UNCHANGED <<held, memo, thr>>

Next == FindPath \/ CreateRouteNetwork

\* Calls on the instance one after the other.
Spec == Init /\ [][Next]_vars

(***************************************************************************)
(* calculate_risk as a function of the point alone: the points within      *)
(* GridMargin units beyond the radius of each risk zone.                   *)
(***************************************************************************)
GridMargin == 1

RiskGrid ==
    UNION { { <<lat, lon>> :
                lat \in (risk_zones[k].coordinates[1] - risk_zones[k].radius - GridMargin)
                        ..(risk_zones[k].coordinates[1] + risk_zones[k].radius + GridMargin),
                lon \in (risk_zones[k].coordinates[2] - risk_zones[k].radius - GridMargin)
                        ..(risk_zones[k].coordinates[2] + risk_zones[k].radius + GridMargin) }
            : k \in 1..Len(risk_zones) }

\* path_finder.calculate_risk(point)
CalculateRisk ==
    \E point \in RiskGrid :
        /\ result' = [status |-> "ok", risk |-> calculate_risk(point)]
        /\ call' = [op |-> "calculate_risk", start |-> << >>, end |-> << >>,
                    waypoints |-> << >>, path_type |-> "", points |-> <<point>>]
        /\ UNCHANGED <<graph, held, memo, thr>>

NextRisk == CalculateRisk

SpecRisk == Init /\ [][NextRisk]_vars

(***************************************************************************)
(* A caller that keeps the graph create_route_network returned while the   *)
(* instance serves further calls.  The method returns self.graph itself,   *)
(* so the caller's reference denotes the object that is in self.graph;     *)
(* held.snapshot is what that object contained when it was returned.       *)
(***************************************************************************)
FrameWays == { <<21, -35>> }

FrameTypes == {"safest"}

\* g = path_finder.create_route_network(points), g kept or dropped.
CreateAndHold ==
    /\ CreateRouteNetworkOver(EndCoords, FrameWays, MaxWaypoints - 1)
    /\ \/ held' = [ref |-> "self.graph", snapshot |-> graph']
       \/ held' = held
    /\ UNCHANGED <<memo, thr>>

FindPathWhileHeld ==
    /\ FindPathOver(EndCoords, FrameWays, MaxWaypoints - 1, FrameTypes)
    /\ UNCHANGED <<held, memo, thr>>

NextFrame == CreateAndHold \/ FindPathWhileHeld

SpecFrame == Init /\ [][NextFrame]_vars

(***************************************************************************)
(* A caller that remembers one find_path call and its result, and whether  *)
(* builds of more or of fewer points were made on the instance since.      *)
(***************************************************************************)
RepeatWays == { <<20, -36>> }

RepeatTypes == {"fastest", "safest"}

SameArguments(c, d) ==
    /\ c.op = d.op
    /\ c.start = d.start
    /\ c.end = d.end
    /\ c.waypoints = d.waypoints
    /\ c.path_type = d.path_type

\* The memo after the call c returned r.
Noted(c, r) ==
    IF memo.call.op = "none" THEN memo
    ELSE [memo EXCEPT !.more  = @ \/ Len(c.points) > Len(memo.call.points),
                      !.fewer = @ \/ Len(c.points) < Len(memo.call.points)]

FindPathRemembered ==
    /\ FindPathOver(EndCoords, RepeatWays, MaxWaypoints, RepeatTypes)
    /\ \/ memo' = Noted(call', result')
       \/ /\ memo.call.op = "none"
          /\ memo' = [call |-> call', result |-> result',
                      more |-> FALSE, fewer |-> FALSE]
    /\ UNCHANGED <<held, thr>>

CreateRouteNetworkBetween ==
    /\ CreateRouteNetworkOver(EndCoords, RepeatWays, MaxWaypoints)
    /\ memo' = Noted(call', result')
    /\ UNCHANGED <<held, thr>>

NextRepeat == FindPathRemembered \/ CreateRouteNetworkBetween

SpecRepeat == Init /\ [][NextRepeat]_vars

(***************************************************************************)
(* Two requests inside find_path at once on the shared path_finder (app.py *)
(* serves each request on a thread of its own).  A thread can be switched  *)
(* out between any two statements; the steps below are the call of clear,  *)
(* each add_node, each pass of the inner edge loop, and the rest of        *)
(* find_path from shortest_path on, every step atomic.  These are some of  *)
(* the interleavings of the code, not all of them.                         *)
(***************************************************************************)
ConcWays == { <<21, -35>> }

ConcTypes == {"fastest", "safest"}

\* Lines 81-85 and the call of create_route_network.
Enter(t) ==
    /\ thr[t].pc = "idle"
    /\ \E start \in EndCoords, end \in EndCoords,
          waypoints \in SeqsUpTo(ConcWays, MaxWaypoints - 1), path_type \in ConcTypes :
            thr' = [thr EXCEPT ![t] =
                      [pc |-> "clear", start |-> start, end |-> end,
                       waypoints |-> waypoints, path_type |-> path_type,
                       all_points |-> AllPoints(start, waypoints, end),
                       i |-> 0, j |-> 0, result |-> NoResult]]
    /\ UNCHANGED <<graph, call, result, held, memo>>

\* Line 32.
Clear(t) ==
    /\ thr[t].pc = "clear"
    /\ graph' = GraphClear(graph)
    /\ thr' = [thr EXCEPT ![t].pc = "nodes", ![t].i = 0]
    /\ UNCHANGED <<call, result, held, memo>>

\* One pass of the loop of lines 35-37; after the last one, line 40.
AddNodeStep(t) ==
    /\ thr[t].pc = "nodes"
    /\ graph' = AddNode(graph, thr[t].i, NodeAttrs(thr[t].all_points, thr[t].i))
    /\ thr' = IF thr[t].i + 1 < Len(thr[t].all_points)
              THEN [thr EXCEPT ![t].i = @ + 1]
              ELSE [thr EXCEPT ![t].pc = "edges", ![t].i = 0, ![t].j = 1]
    /\ UNCHANGED <<call, result, held, memo>>

\* One pass of the inner loop of lines 41-60 for the pair (i, j): reading a
\* node that is not in the graph raises KeyError (lines 42-43), which
\* find_path does not catch.
AddEdgeStep(t) ==
    /\ thr[t].pc = "edges"
    /\ LET i == thr[t].i
           j == thr[t].j
           n == Len(thr[t].all_points)
       IN  IF ~HasNode(graph, i) \/ ~HasNode(graph, j)
           THEN /\ thr' = [thr EXCEPT
                             ![t].pc = "done",
                             ![t].result = Raised("KeyError", thr[t].waypoints,
                                                  thr[t].path_type)]
                /\ UNCHANGED graph
           ELSE /\ graph' = AddEdge(graph, i, j, EdgeAttrs(graph, thr[t].all_points, i, j))
                /\ thr' = IF j + 1 < n THEN [thr EXCEPT ![t].j = @ + 1]
                          ELSE IF i + 2 < n
                          THEN [thr EXCEPT ![t].i = i + 1, ![t].j = i + 2]
                          ELSE [thr EXCEPT ![t].pc = "search"]
    /\ UNCHANGED <<call, result, held, memo>>

\* Lines 91-127.
Search(t) ==
    /\ thr[t].pc = "search"
    /\ thr' = [thr EXCEPT
                 ![t].pc = "done",
                 ![t].result = FinishPath(graph, thr[t].all_points,
                                          thr[t].waypoints, thr[t].path_type)]
    /\ UNCHANGED <<graph, call, result, held, memo>>

\* The request is answered and the thread is free for the next one.
Return(t) ==
    /\ thr[t].pc = "done"
    /\ thr' = [thr EXCEPT ![t] = Idle]
    /\ UNCHANGED <<graph, call, result, held, memo>>

NextConc ==
    \E t \in Threads :
        \/ Enter(t)
        \/ Clear(t)
        \/ AddNodeStep(t)
        \/ AddEdgeStep(t)
        \/ Search(t)
        \/ Return(t)

SpecConc == Init /\ [][NextConc]_vars

\* What the call of thread t returns when no other call runs during it.
AloneResult(t) ==
    FinishPath(create_route_network(graph, thr[t].all_points),
               thr[t].all_points, thr[t].waypoints, thr[t].path_type)

(***************************************************************************)
(* utils.parse_coordinates.  A string is a sequence of characters; a float *)
(* is a record of its kind and, when finite, its value times ValueScale.   *)
(***************************************************************************)
ValueScale == 2 * 5

MaxParts == 3

DigitChars == <<"0", "1", "2", "3", "4", "5", "6", "7", "8", "9">>

IsDigit(c) == \E d \in 1..Len(DigitChars) : DigitChars[d] = c

DigitValue(c) == (CHOOSE d \in 1..Len(DigitChars) : DigitChars[d] = c) - 1

IsSpace(c) == c = " "

RECURSIVE Pow10(_)
Pow10(n) == IF n <= 0 THEN 1 ELSE 10 * Pow10(n - 1)

\* str.split(','): the fields between the commas, from character k on, with
\* cur the field being read and acc the fields already closed.
RECURSIVE SplitLoop(_, _, _, _)
SplitLoop(s, k, cur, acc) ==
    IF k > Len(s) THEN Append(acc, cur)
    ELSE IF s[k] = "," THEN SplitLoop(s, k + 1, << >>, Append(acc, cur))
    ELSE SplitLoop(s, k + 1, Append(cur, s[k]), acc)

Split(s) == SplitLoop(s, 1, << >>, << >>)

\* str.strip(): the string without its leading and trailing whitespace.
RECURSIVE Strip(_)
Strip(s) ==
    IF s = << >> THEN s
    ELSE IF IsSpace(s[1]) THEN Strip(Tail(s))
    ELSE IF IsSpace(s[Len(s)]) THEN Strip(SubSeq(s, 1, Len(s) - 1))
    ELSE s

\* The number of digits of s from position k on.
RECURSIVE CountDigits(_, _)
CountDigits(s, k) ==
    IF k <= Len(s) /\ IsDigit(s[k]) THEN 1 + CountDigits(s, k + 1) ELSE 0

\* The value of the n digits of s that start at position k.
RECURSIVE DigitsValue(_, _, _)
DigitsValue(s, k, n) ==
    IF n = 0 THEN 0
    ELSE DigitsValue(s, k, n - 1) * 10 + DigitValue(s[k + n - 1])

NotAFloat == [ok |-> FALSE, kind |-> "none", value |-> 0]

\* The float read from s: sign, the ni digits from i on, the nf digits from
\* f on, and the exponent ne digits long that starts at x and ends before last.
FloatValue(s, sign, i, ni, f, nf, esign, x, ne, last) ==
    LET power == esign * DigitsValue(s, x, ne)
        mantissa == DigitsValue(s, i, ni) * Pow10(nf) + DigitsValue(s, f, nf)
        shift == power - nf
    IN  IF SubSeq(s, i, Len(s)) = <<"n", "a", "n">>
        THEN [ok |-> TRUE, kind |-> "nan", value |-> 0]
        ELSE IF SubSeq(s, i, Len(s)) = <<"i", "n", "f">>
        THEN [ok |-> TRUE, kind |-> "inf", value |-> sign]
        ELSE IF ni + nf = 0 \/ last # Len(s) + 1
        THEN NotAFloat
        ELSE [ok |-> TRUE, kind |-> "finite",
              value |-> IF shift >= 0
                        THEN sign * mantissa * ValueScale * Pow10(shift)
                        ELSE sign * ((mantissa * ValueScale) \div Pow10(-shift))]

\* The exponent, looked for at e: a mark, an optional sign, then digits from
\* x on; a mark without digits is an error.
FloatExponent(s, sign, i, ni, f, nf, e, x) ==
    IF e <= Len(s) /\ s[e] \in {"e", "E"}
    THEN IF CountDigits(s, x) = 0 THEN NotAFloat
         ELSE FloatValue(s, sign, i, ni, f, nf,
                         IF x = e + 2 /\ s[e + 1] = "-" THEN -1 ELSE 1,
                         x, CountDigits(s, x), x + CountDigits(s, x))
    ELSE FloatValue(s, sign, i, ni, f, nf, 1, e, 0, e)

\* The digits after the point, from f on.
FloatFraction(s, sign, i, ni, f, nf) ==
    FloatExponent(s, sign, i, ni, f, nf, f + nf,
                  IF f + nf + 1 <= Len(s) /\ s[f + nf + 1] \in {"+", "-"}
                  THEN f + nf + 2 ELSE f + nf + 1)

\* The digits before the point, from i on, and the point after them.
FloatDigits(s, sign, i, ni) ==
    IF i + ni <= Len(s) /\ s[i + ni] = "."
    THEN FloatFraction(s, sign, i, ni, i + ni + 1, CountDigits(s, i + ni + 1))
    ELSE FloatFraction(s, sign, i, ni, i + ni, 0)

FloatSigned(s) ==
    IF s # << >> /\ s[1] \in {"+", "-"}
    THEN FloatDigits(s, IF s[1] = "-" THEN -1 ELSE 1, 2, CountDigits(s, 2))
    ELSE FloatDigits(s, 1, 1, CountDigits(s, 1))

\* float(text): optional sign, then nan, inf, or digits with an optional
\* point and an optional exponent; anything left over is an error.
float(text) == FloatSigned(Strip(text))

\* lo <= x <= hi for a float x: false for nan and for either infinity.
Between(lo, x, hi) ==
    /\ x.kind = "finite"
    /\ lo * ValueScale <= x.value
    /\ x.value <= hi * ValueScale

\* parse_coordinates with the longitude left unvalidated.
parse_coordinatesLatOnly(coord_str) ==
    LET parts == [k \in 1..Len(Split(coord_str)) |-> Strip(Split(coord_str)[k])]
    IN  IF Len(parts) # 2 THEN [status |-> "ValueError"]
        ELSE IF ~float(parts[1]).ok \/ ~float(parts[2]).ok
        THEN [status |-> "ValueError"]
        ELSE IF ~Between(-90, float(parts[1]), 90) THEN [status |-> "ValueError"]
        ELSE [status |-> "ok", lat |-> float(parts[1]).value,
              lon |-> float(parts[2]).value]

\* Every raise inside the try, float's included, leaves as ValueError.
parse_coordinates(coord_str) ==
    LET parts == [k \in 1..Len(Split(coord_str)) |-> Strip(Split(coord_str)[k])]
    IN  IF Len(parts) # 2 THEN [status |-> "ValueError"]
        ELSE IF ~float(parts[1]).ok \/ ~float(parts[2]).ok
        THEN [status |-> "ValueError"]
        ELSE LET lat == float(parts[1])
                 lon == float(parts[2])
             IN  IF ~Between(-90, lat, 90) THEN [status |-> "ValueError"]
                 ELSE IF ~Between(-180, lon, 180) THEN [status |-> "ValueError"]
                 ELSE [status |-> "ok", lat |-> lat.value, lon |-> lon.value]

\* The texts a field is written with, each with the float it denotes
\* (value times ValueScale) or "none" where it denotes no float.
Literals ==
    << [text |-> <<"9", "0">>,                kind |-> "finite", value |-> 900],
       [text |-> <<"9", "1">>,                kind |-> "finite", value |-> 910],
       [text |-> <<"-", "9", "0">>,           kind |-> "finite", value |-> -900],
       [text |-> <<"-", "9", "1">>,           kind |-> "finite", value |-> -910],
       [text |-> <<"1", "8", "0">>,           kind |-> "finite", value |-> 1800],
       [text |-> <<"1", "8", "1">>,           kind |-> "finite", value |-> 1810],
       [text |-> <<"-", "1", "8", "0">>,      kind |-> "finite", value |-> -1800],
       [text |-> <<"-", "1", "8", "1">>,      kind |-> "finite", value |-> -1810],
       [text |-> <<"4", "5", ".", "5">>,      kind |-> "finite", value |-> 455],
       [text |-> <<"+", "7">>,                kind |-> "finite", value |-> 70],
       [text |-> <<".", "5">>,                kind |-> "finite", value |-> 5],
       [text |-> <<"5", ".">>,                kind |-> "finite", value |-> 50],
       [text |-> <<"9", "e", "1">>,           kind |-> "finite", value |-> 900],
       [text |-> <<"-", "0", ".", "5">>,      kind |-> "finite", value |-> -5],
       [text |-> <<"0">>,                     kind |-> "finite", value |-> 0],
       [text |-> <<"n", "a", "n">>,           kind |-> "nan",    value |-> 0],
       [text |-> <<"i", "n", "f">>,           kind |-> "inf",    value |-> 1],
       [text |-> << >>,                       kind |-> "none",   value |-> 0],
       [text |-> <<"x">>,                     kind |-> "none",   value |-> 0],
       [text |-> <<"-">>,                     kind |-> "none",   value |-> 0],
       [text |-> <<".">>,                     kind |-> "none",   value |-> 0],
       [text |-> <<"e", "1">>,                kind |-> "none",   value |-> 0],
       [text |-> <<"1", "e">>,                kind |-> "none",   value |-> 0],
       [text |-> <<"4", " ", "5">>,           kind |-> "none",   value |-> 0],
       [text |-> <<"1", ".", "2", ".", "3">>, kind |-> "none",   value |-> 0] >>

\* A field: a literal, bare or with a space on either side.
Fields == (1..Len(Literals)) \X BOOLEAN

\* The fields of a string of other than two fields.
FewFields == {1, 5, 18} \X {FALSE}

FieldText(field) ==
    IF field[2] THEN <<" ">> \o Literals[field[1]].text \o <<" ">>
    ELSE Literals[field[1]].text

\* The string whose fields, from the k-th on, are joined by commas.
RECURSIVE Join(_, _)
Join(fields, k) ==
    IF k > Len(fields) THEN << >>
    ELSE IF k = Len(fields) THEN FieldText(fields[k])
    ELSE FieldText(fields[k]) \o <<",">> \o Join(fields, k + 1)

CoordFields ==
    UNION { IF n = 2 THEN [1..n -> Fields] ELSE [1..n -> FewFields] :
            n \in 1..MaxParts }

\* A string is handed to parse_coordinates.
InitParse ==
    /\ graph = EmptyGraph
    /\ \E fields \in CoordFields :
          call = [op |-> "input", fields |-> fields, coord_str |-> Join(fields, 1)]
    /\ result = NoResult
    /\ held = NoGraph
    /\ memo = NoMemo
    /\ thr = [t \in Threads |-> Idle]

ParseCoordinates ==
    /\ call.op = "input"
    /\ call' = [call EXCEPT !.op = "parse_coordinates"]
    /\ result' = parse_coordinates(call.coord_str)
    /\ UNCHANGED <<graph, held, memo, thr>>

NextParse == ParseCoordinates

SpecParse == InitParse /\ [][NextParse]_vars

(***************************************************************************)
(* routing.graph.haversine_km and WeatherSimulator._haversine.  Angles are *)
(* whole degrees, multiples of 15; a sine or cosine is its value times     *)
(* TrigScale; a distance is in whole kilometres.                           *)
(***************************************************************************)
TrigScale == 10 * 10

\* TrigScale * sin of 0, 15, ..., 90 degrees.
SinTable == <<0, 26, 50, 71, 87, 97, 100>>

RECURSIVE Sin(_)
Sin(d) ==
    IF d < 0 THEN -Sin(-d)
    ELSE IF d > 90 THEN Sin(180 - d)
    ELSE SinTable[(d \div 15) + 1]

Cos(d) == Sin(90 - d)

\* The angle in degrees between 0 and 90 whose squared sine is x (x times
\* TrigScale squared): atan2(sqrt(x), sqrt(1 - x)), read off the table and
\* interpolated between its entries.
Atan2Sqrt(x) ==
    IF x >= TrigScale * TrigScale THEN 90
    ELSE LET t == CHOOSE k \in 1..(Len(SinTable) - 1) :
                      /\ SinTable[k] * SinTable[k] <= x
                      /\ x < SinTable[k + 1] * SinTable[k + 1]
             lo == SinTable[t] * SinTable[t]
             hi == SinTable[t + 1] * SinTable[t + 1]
         IN  15 * (t - 1) + (15 * (x - lo)) \div (hi - lo)

\* 2 * R * c for c an angle in degrees, with 355/113 for pi.
ArcKm(R, c) == (2 * R * c * 355) \div (113 * 180)

\* haversine_km with the cosine of the first latitude taken twice.
haversine_kmOneLatitude(a, b) ==
    LET lat1 == a[1]
        lon1 == a[2]
        lat2 == b[1]
        lon2 == b[2]
        R == 6371
        dlat == lat2 - lat1
        dlon == lon2 - lon1
        x == Sin(dlat \div 2) * Sin(dlat \div 2)
             + (Cos(lat1) * Cos(lat1) * Sin(dlon \div 2) * Sin(dlon \div 2))
               \div (TrigScale * TrigScale)
    IN  ArcKm(R, Atan2Sqrt(x))

haversine_km(a, b) ==
    LET lat1 == a[1]
        lon1 == a[2]
        lat2 == b[1]
        lon2 == b[2]
        R == 6371
        dlat == lat2 - lat1
        dlon == lon2 - lon1
        x == Sin(dlat \div 2) * Sin(dlat \div 2)
             + (Cos(lat1) * Cos(lat2) * Sin(dlon \div 2) * Sin(dlon \div 2))
               \div (TrigScale * TrigScale)
    IN  ArcKm(R, Atan2Sqrt(x))

_haversine(coord1, coord2) ==
    LET lat1 == coord1[1]
        lon1 == coord1[2]
        lat2 == coord2[1]
        lon2 == coord2[2]
        dlat == lat2 - lat1
        dlon == lon2 - lon1
        a == Sin(dlat \div 2) * Sin(dlat \div 2)
             + (Cos(lat1) * Cos(lat2) * Sin(dlon \div 2) * Sin(dlon \div 2))
               \div (TrigScale * TrigScale)
        radius_earth == 6371
    IN  ArcKm(radius_earth, Atan2Sqrt(a))

HavLats == {-90, -60, -30, 0, 30, 60, 90}

HavLons == {-180, -120, -90, -60, -30, 0, 30, 60, 90, 150, 180}

HavPoints == HavLats \X HavLons

\* Two points are handed to a distance function.
InitHav ==
    /\ graph = EmptyGraph
    /\ \E a \in HavPoints, b \in HavPoints :
          call = [NoCall EXCEPT !.op = "input", !.start = a, !.end = b]
    /\ result = NoResult
    /\ held = NoGraph
    /\ memo = NoMemo
    /\ thr = [t \in Threads |-> Idle]

HaversineKm ==
    /\ call.op = "input"
    /\ call' = [call EXCEPT !.op = "haversine_km"]
    /\ result' = [status |-> "ok", km |-> haversine_km(call.start, call.end)]
    /\ UNCHANGED <<graph, held, memo, thr>>

Haversine ==
    /\ call.op = "input"
    /\ call' = [call EXCEPT !.op = "_haversine"]
    /\ result' = [status |-> "ok",
                  km |-> _haversine(call.start, call.end)]
    /\ UNCHANGED <<graph, held, memo, thr>>

NextHav ==
    \/ HaversineKm
    \/ Haversine

SpecHav == InitHav /\ [][NextHav]_vars

(***************************************************************************)
(* routing.graph.build_graph.  Its graph is keyed by port names: node maps *)
(* each name to its attributes, edge maps each unordered pair of names (a  *)
(* one-name set for a self-loop) to its attributes.                        *)
(***************************************************************************)
MaxPorts == 3

PortNames == {"A", "B", "C"}

PortCoords == {<<0, 0>>, <<0, 90>>, <<30, 60>>}

\* The dataclass Port.
Port == [name : PortNames, coord : PortCoords]

EmptyNameGraph == [node |-> << >>, edge |-> << >>]

\* Graph.add_node(name, coord=coord): a node already there gets the new
\* attribute.
AddNamedNode(G, name, coord) ==
    [G EXCEPT !.node = [m \in (DOMAIN G.node) \cup {name} |->
                           IF m = name THEN [coord |-> coord] ELSE G.node[m]]]

\* Graph.add_edge(a, b, distance=distance): an edge already there gets the
\* new attribute.
AddNamedEdge(G, a, b, distance) ==
    [G EXCEPT !.edge = [e \in (DOMAIN G.edge) \cup {{a, b}} |->
                           IF e = {a, b} THEN [distance |-> distance]
                           ELSE G.edge[e]]]

\* Lines 20-21, from the k-th port on.
RECURSIVE AddPorts(_, _, _)
AddPorts(G, ports, k) ==
    IF k > Len(ports) THEN G
    ELSE AddPorts(AddNamedNode(G, ports[k].name, ports[k].coord), ports, k + 1)

\* Lines 24-26, from the pair (i, j) of positions in names on.
RECURSIVE AddNamedEdges(_, _, _, _)
AddNamedEdges(G, names, i, j) ==
    IF i > Len(names) THEN G
    ELSE IF j > Len(names) THEN AddNamedEdges(G, names, i + 1, i + 2)
    ELSE AddNamedEdges(
             AddNamedEdge(G, names[i], names[j],
                          haversine_km(G.node[names[i]].coord,
                                       G.node[names[j]].coord)),
             names, i, j + 1)

\* What a second iteration over ports yields: a list yields its items
\* again, an iterator that the first loop has run to its end yields none.
IterateAgain(ports, kind) == IF kind = "list" THEN ports ELSE << >>

build_graph(ports, kind) ==
    LET graph0 == AddPorts(EmptyNameGraph, ports, 1)
        again == IterateAgain(ports, kind)
        names == [k \in 1..Len(again) |-> again[k].name]
    IN  AddNamedEdges(graph0, names, 1, 2)

\* An iterable of ports is handed to build_graph.
InitBuild ==
    /\ graph = EmptyGraph
    /\ \E n \in 0..MaxPorts :
          \E ports \in [1..n -> Port], kind \in {"list", "iterator"} :
              call = [op |-> "input", ports |-> ports, kind |-> kind]
    /\ result = NoResult
    /\ held = NoGraph
    /\ memo = NoMemo
    /\ thr = [t \in Threads |-> Idle]

BuildGraph ==
    /\ call.op = "input"
    /\ call' = [call EXCEPT !.op = "build_graph"]
    /\ result' = [status |-> "ok", graph |-> build_graph(call.ports, call.kind)]
    /\ UNCHANGED <<graph, held, memo, thr>>

NextBuild == BuildGraph

SpecBuild == InitBuild /\ [][NextBuild]_vars

(***************************************************************************)
(* routing.pathfinding: fastest_path, safest_path, recommended_path.  A    *)
(* graph handed to them is a graph of objects: edge maps each edge to the  *)
(* reference of its attribute dict and store maps each reference to the    *)
(* dict it holds, so that a write through one graph shows in every graph   *)
(* that holds the same reference.  A risk is its value times RiskDen,      *)
(* alpha its value times AlphaDen, risk_cost and combo_cost their values   *)
(* times WeightScale.                                                      *)
(***************************************************************************)
RiskDen == 10 * 10

AlphaDen == 2 * 2

WeightScale == RiskDen * AlphaDen

\* dict.get(key, default)
Get(data, key, default) == IF key \in DOMAIN data THEN data[key] ELSE default

\* The graph build_graph returned for the ports named names, as objects.
Boxed(G, names) ==
    [order |-> names,
     node  |-> G.node,
     edge  |-> [e \in DOMAIN G.edge |-> <<"graph", e>>],
     store |-> [r \in {<<"graph", e>> : e \in DOMAIN G.edge} |-> G.edge[r[2]]]]

\* A copy that is the very graph it was asked to copy.
GraphCopyShares(H) == H

\* Graph.copy(): the same nodes and edges, every edge with a new dict that
\* holds what the edge's dict held.
GraphCopy(H) ==
    [H EXCEPT
       !.edge  = [e \in DOMAIN H.edge |-> <<"g", e>>],
       !.store = [r \in (DOMAIN H.store) \cup {<<"g", e>> : e \in DOMAIN H.edge} |->
                     IF r[1] = "g" THEN H.store[H.edge[r[2]]] ELSE H.store[r]]]

\* The ports of the mesh base_graph of the dashboard, by name.
sample_ports ==
    [n \in {"Start", "MidA", "MidB", "End"} |->
        IF n = "Start" THEN <<0, 0>>
        ELSE IF n = "MidA" THEN <<10, 15>>
        ELSE IF n = "MidB" THEN <<5, 30>>
        ELSE <<20, 40>>]

\* The risk functions handed to the searches, each giving an error or a
\* value: "calm" is no risk anywhere, "longitude" is the dashboard's formula
\* on the graph's own coordinates, "tailwind" is a negative risk,
\* "risk_metric" is the dashboard's function, which looks u and v up in
\* base_graph.
RiskFuncs == {"calm", "longitude", "tailwind", "risk_metric"}

risk_func(kind, H, u, v, data) ==
    IF kind = "calm" THEN [err |-> "none", value |-> 0]
    ELSE IF kind = "longitude"
    THEN [err |-> "none",
          value |-> Max2(0, H.node[u].coord[2] + H.node[v].coord[2])]
    ELSE IF kind = "tailwind" THEN [err |-> "none", value |-> -(RiskDen \div 2)]
    ELSE IF u \notin DOMAIN sample_ports \/ v \notin DOMAIN sample_ports
    THEN [err |-> "KeyError", value |-> 0]
    ELSE [err |-> "none",
          value |-> Max2(0, sample_ports[u][2] + sample_ports[v][2])]

\* The two ends u, v of an edge as g.edges() yields them.
EdgeU(e) == CHOOSE u \in e : TRUE

EdgeV(e) == IF Cardinality(e) = 1 THEN EdgeU(e) ELSE CHOOSE v \in e : v # EdgeU(e)

\* Line 17: distance * (1.0 + risk).
risk_cost(distance, risk) == distance * (RiskDen + risk) * AlphaDen

\* combo_cost with alpha on the risky term and 1 - alpha on the plain one.
combo_costAlphaOnRisk(alpha, distance, risk) ==
    (AlphaDen - alpha) * distance * RiskDen + alpha * distance * (RiskDen + risk)

\* Line 26: alpha * distance + (1 - alpha) * distance * (1.0 + risk).
combo_cost(alpha, distance, risk) ==
    alpha * distance * RiskDen + (AlphaDen - alpha) * distance * (RiskDen + risk)

\* The position, counted from 0, of a name in the graph's node order.
IndexOf(H, name) == (CHOOSE k \in 1..Len(H.order) : H.order[k] = name) - 1

\* The edges of H added to the indexed graph G in the order build_graph
\* added them, from the pair (i, j) of positions on.
RECURSIVE IndexedEdges(_, _, _, _)
IndexedEdges(G, H, i, j) ==
    IF i > Len(H.order) THEN G
    ELSE IF j > Len(H.order) THEN IndexedEdges(G, H, i + 1, i + 2)
    ELSE IF {H.order[i], H.order[j]} \in DOMAIN H.edge
    THEN IndexedEdges(AddEdge(G, i - 1, j - 1,
                              H.store[H.edge[{H.order[i], H.order[j]}]]),
                      H, i, j + 1)
    ELSE IndexedEdges(G, H, i, j + 1)

RECURSIVE IndexedNodes(_, _, _)
IndexedNodes(G, H, k) ==
    IF k > Len(H.order) THEN G
    ELSE IndexedNodes(AddNode(G, k - 1, H.node[H.order[k]]), H, k + 1)

\* nx.shortest_path(H, start, end, weight) for a graph of objects: the
\* search runs on the nodes numbered in their order and answers in names.
shortest_path_named(H, start, end, weight) ==
    IF start \notin DOMAIN H.node \/ end \notin DOMAIN H.node
    THEN [err |-> "NodeNotFound", path |-> << >>]
    ELSE LET G == IndexedEdges(IndexedNodes(EmptyGraph, H, 1), H, 1, 2)
             found == shortest_path(G, IndexOf(H, start), IndexOf(H, end), weight)
         IN  [err  |-> found.err,
              path |-> [k \in 1..Len(found.path) |-> H.order[found.path[k] + 1]]]

\* What a search hands back: the path or the error, the risk and the weight
\* it gave each edge, and the graph of objects as the call left it.
Searched(found, risks, weights, H) ==
    [status  |-> IF found.err = "none" THEN "ok" ELSE found.err,
     path    |-> found.path,
     risks   |-> risks,
     weights |-> weights,
     heap    |-> H]

fastest_path(graph_, start, end) ==
    Searched(shortest_path_named(graph_, start, end, "distance"),
             << >>,
             [e \in DOMAIN graph_.edge |-> graph_.store[graph_.edge[e]].distance],
             graph_)

\* Lines 13-17 and 22-26: the copy g with the cost of every edge written
\* under key into the edge's dict, risk_cost for safest_path and combo_cost
\* with its alpha for recommended_path; a risk_func that raises leaves the
\* loop at its first edge.
Weighted(graph_, risk_kind, key, alpha) ==
    LET g == GraphCopy(graph_)
        data(e) == g.store[g.edge[e]]
        cost(distance, risk) == IF key = "risk_cost" THEN risk_cost(distance, risk)
                                ELSE combo_cost(alpha, distance, risk)
        risks == [e \in DOMAIN g.edge |->
                     risk_func(risk_kind, g, EdgeU(e), EdgeV(e), data(e))]
        weights == [e \in DOMAIN g.edge |->
                       cost(Get(data(e), "distance", 1), risks[e].value)]
    IN  IF \E e \in DOMAIN g.edge : risks[e].err # "none"
        THEN [err |-> "KeyError", risks |-> << >>, weights |-> << >>, g |-> g]
        ELSE [err |-> "none",
              risks |-> [e \in DOMAIN g.edge |-> risks[e].value],
              weights |-> weights,
              g |-> [g EXCEPT !.store =
                       [r \in DOMAIN g.store |->
                           IF \E e \in DOMAIN g.edge : g.edge[e] = r
                           THEN (key :> weights[CHOOSE e \in DOMAIN g.edge : g.edge[e] = r])
                                    @@ g.store[r]
                           ELSE g.store[r]]]]

safest_path(graph_, start, end, risk_kind) ==
    LET w == Weighted(graph_, risk_kind, "risk_cost", 0)
    IN  IF w.err # "none"
        THEN Searched([err |-> w.err, path |-> << >>], << >>, << >>, w.g)
        ELSE Searched(shortest_path_named(w.g, start, end, "risk_cost"),
                      w.risks, w.weights, w.g)

recommended_path(graph_, start, end, risk_kind, alpha) ==
    LET w == Weighted(graph_, risk_kind, "combo_cost", alpha)
    IN  IF w.err # "none"
        THEN Searched([err |-> w.err, path |-> << >>], << >>, << >>, w.g)
        ELSE Searched(shortest_path_named(w.g, start, end, "combo_cost"),
                      w.risks, w.weights, w.g)

\* The caller's graph once a call has returned and its local g is gone:
\* the caller's edges and references, with the dicts as the call left them.
AfterCall(graph_, heap) ==
    [graph_ EXCEPT !.store = [r \in DOMAIN graph_.store |-> heap.store[r]]]

\* The ports on_compute builds its graph from: S and E where the user put
\* them, A and B between them.
PathPorts(s, e) ==
    << [name |-> "S", coord |-> s], [name |-> "A", coord |-> <<0, 30>>],
       [name |-> "B", coord |-> <<30, 60>>], [name |-> "E", coord |-> e] >>

PathStarts == {<<0, 0>>, <<0, 30>>, <<30, 0>>}

PathEnds == {<<0, 90>>, <<30, 60>>, <<60, 90>>}

AlphaValues == 0..(AlphaDen + 1)

\* on_compute has built its graph.
InitPaths ==
    /\ \E s \in PathStarts, e \in PathEnds :
          LET ports == PathPorts(s, e)
          IN  graph = Boxed(build_graph(ports, "list"),
                            [k \in 1..Len(ports) |-> ports[k].name])
    /\ call = [op |-> "none", risk_func |-> "", alpha |-> 0]
    /\ result = NoResult
    /\ held = [ref |-> "graph", snapshot |-> graph]
    /\ memo = NoMemo
    /\ thr = [t \in Threads |-> Idle]

\* fastest_path(graph, "S", "E"); the first answer is remembered.
FastestPath ==
    /\ call' = [op |-> "fastest_path", risk_func |-> "", alpha |-> 0]
    /\ result' = fastest_path(graph, "S", "E")
    /\ graph' = AfterCall(graph, result'.heap)
    /\ memo' = IF memo.call.op = "none"
               THEN [call |-> call', result |-> result', more |-> FALSE,
                     fewer |-> FALSE]
               ELSE memo
    /\ UNCHANGED <<held, thr>>

SafestPath ==
    /\ \E risk_kind \in RiskFuncs :
          /\ call' = [op |-> "safest_path", risk_func |-> risk_kind, alpha |-> 0]
          /\ result' = safest_path(graph, "S", "E", risk_kind)
    /\ graph' = AfterCall(graph, result'.heap)
    /\ memo' = [memo EXCEPT !.more = memo.call.op # "none"]
    /\ UNCHANGED <<held, thr>>

RecommendedPath ==
    /\ \E risk_kind \in RiskFuncs, alpha \in AlphaValues :
          /\ call' = [op |-> "recommended_path", risk_func |-> risk_kind,
                      alpha |-> alpha]
          /\ result' = recommended_path(graph, "S", "E", risk_kind, alpha)
    /\ graph' = AfterCall(graph, result'.heap)
    /\ memo' = [memo EXCEPT !.more = memo.call.op # "none"]
    /\ UNCHANGED <<held, thr>>

NextPaths ==
    \/ FastestPath
    \/ SafestPath
    \/ RecommendedPath

SpecPaths == InitPaths /\ [][NextPaths]_vars

(***************************************************************************)
(* WeatherSimulator.get_weather_along_route.  A distance is in whole       *)
(* kilometres, a time in tenths of an hour; the random weather values of   *)
(* an observation are left out, its place and region are kept.             *)
(***************************************************************************)
MaxSamples == 50

MaxRoute == 3

\* _get_region_for_coords, on whole degrees.
_get_region_for_coords(lat, lon) ==
    IF 2 * Abs(lat) < 47 THEN "tropical"
    ELSE IF 2 * Abs(lat) < 133 THEN "temperate"
    ELSE "polar"

\* sum(distances[:i]) for the distances between consecutive coordinates.
RECURSIVE SumDistances(_, _)
SumDistances(coordinates, i) ==
    IF i <= 0 THEN 0
    ELSE SumDistances(coordinates, i - 1)
         + _haversine(coordinates[i], coordinates[i + 1])

\* np.linspace(0, n - 1, num, dtype=int): num indices from 0 to n - 1.
linspace(n, num) ==
    [k \in 1..num |-> IF num = 1 THEN 0 ELSE ((k - 1) * (n - 1)) \div (num - 1)]

\* The observation of lines 182-190 at index i (counted from 0).
Observation(coordinates, i, distance_so_far, speed_knots) ==
    [index              |-> i,
     latitude           |-> coordinates[i + 1][1],
     longitude          |-> coordinates[i + 1][2],
     region             |-> _get_region_for_coords(coordinates[i + 1][1],
                                                   coordinates[i + 1][2]),
     distance_km        |-> distance_so_far,
     time_elapsed_hours |-> (distance_so_far * 2500) \div (463 * speed_knots)]

\* Line 183 divides by total_distance: a route of no length, a single point
\* included, raises ZeroDivisionError at its first sample.
get_weather_along_route(coordinates, speed_knots) ==
    LET n == Len(coordinates)
        total_distance == SumDistances(coordinates, n - 1)
        sample_indices == linspace(n, Min2(MaxSamples, n))
    IN  IF Len(sample_indices) > 0 /\ total_distance = 0
        THEN [status |-> "ZeroDivisionError", weather_data |-> << >>]
        ELSE [status |-> "ok",
              weather_data |->
                  [k \in 1..Len(sample_indices) |->
                      Observation(coordinates, sample_indices[k],
                                  SumDistances(coordinates, sample_indices[k]),
                                  speed_knots)]]

RoutePoints == {<<0, 0>>, <<0, 30>>, <<30, 60>>}

\* A route of n points that goes back and forth between two places.
LongRoute(n) == [k \in 1..n |-> IF k % 2 = 1 THEN <<0, 0>> ELSE <<0, 30>>]

Routes ==
    (SeqsUpTo(RoutePoints, MaxRoute) \ {<< >>})
        \cup {LongRoute(MaxSamples), LongRoute(MaxSamples + 1), LongRoute(2 * MaxSamples)}

\* A route is handed to the simulator.
InitWeather ==
    /\ graph = EmptyGraph
    /\ \E coordinates \in Routes, speed_knots \in {10, 20} :
          call = [op |-> "input", coordinates |-> coordinates,
                  speed_knots |-> speed_knots]
    /\ result = NoResult
    /\ held = NoGraph
    /\ memo = NoMemo
    /\ thr = [t \in Threads |-> Idle]

GetWeatherAlongRoute ==
    /\ call.op = "input"
    /\ call' = [call EXCEPT !.op = "get_weather_along_route"]
    /\ result' = get_weather_along_route(call.coordinates, call.speed_knots)
    /\ UNCHANGED <<graph, held, memo, thr>>

NextWeather == GetWeatherAlongRoute

SpecWeather == InitWeather /\ [][NextWeather]_vars

(***************************************************************************)
(* update_map of app.py, with utils.parse_waypoints and save_route_to_file.*)
(* The directory data/routes is held.files, the records written to it in   *)
(* the order they were written.                                            *)
(***************************************************************************)
\* str.strip() of a text: spaces and line ends go from both of its ends.
RECURSIVE StripText(_)
StripText(s) ==
    IF s = << >> THEN s
    ELSE IF s[1] \in {" ", "\n"} THEN StripText(Tail(s))
    ELSE IF s[Len(s)] \in {" ", "\n"} THEN StripText(SubSeq(s, 1, Len(s) - 1))
    ELSE s

\* str.split('\n'), from character k on.
RECURSIVE SplitLines(_, _, _, _)
SplitLines(s, k, cur, acc) ==
    IF k > Len(s) THEN Append(acc, cur)
    ELSE IF s[k] = "\n" THEN SplitLines(s, k + 1, << >>, Append(acc, cur))
    ELSE SplitLines(s, k + 1, Append(cur, s[k]), acc)

\* The loop of parse_waypoints over the lines, from the k-th on.
RECURSIVE ParseLines(_, _, _)
ParseLines(lines, k, acc) ==
    IF k > Len(lines) THEN [status |-> "ok", waypoints |-> acc]
    ELSE IF Strip(lines[k]) = << >> THEN ParseLines(lines, k + 1, acc)
    ELSE LET parsed == parse_coordinates(Strip(lines[k]))
         IN  IF parsed.status # "ok"
             THEN [status |-> parsed.status, waypoints |-> << >>]
             ELSE ParseLines(lines, k + 1,
                             Append(acc, <<parsed.lat, parsed.lon>>))

parse_waypoints(waypoints_str) ==
    IF StripText(waypoints_str) = << >> THEN [status |-> "ok", waypoints |-> << >>]
    ELSE ParseLines(SplitLines(StripText(waypoints_str), 1, << >>, << >>), 1, << >>)

\* A parsed coordinate, a pair of floats, as the whole degrees it stands for.
Degrees(coord) == <<coord[1] \div ValueScale, coord[2] \div ValueScale>>

\* utils.create_folium_map(coordinates): the HTML text of a map of them.
create_folium_map(coordinates) == [type |-> "str", of |-> coordinates]

DEFAULT_COORDS == << <<40, -74>>, <<51, 0>> >>

\* save_route_to_file(route_data): one more file in data/routes.
save_route_to_file(files, route_data) == Append(files, route_data)

\* What the callback hands back: the map, the error its except clause
\* printed ("" for none), what find_path did ("" for not called), and the
\* files of data/routes.
Answer(map, error, found, files) ==
    [map |-> map, error |-> error, found |-> found, files |-> files]

\* Lines 328-377 for the route find_path returned and the weather_data of
\* line 325: the first statement that raises sends the callback to its
\* except clause, which answers with the default map.  find_path's result
\* has no key 'distance' (line 333), and m is the text create_folium_map
\* returned, which nothing can be added to (line 346).
RouteData(files, start, end, waypoint_list, route, weather_data, m, default) ==
    IF route.status # "ok"
    THEN Answer(default, route.status, route.status, files)
    ELSE IF weather_data.status # "ok"
    THEN Answer(default, weather_data.status, "ok", files)
    ELSE IF "distance" \notin DOMAIN route
    THEN Answer(default, "KeyError", "ok", files)
    ELSE IF m.type = "str"
    THEN Answer(default, "AttributeError", "ok", files)
    ELSE Answer(m, "", "ok",
                save_route_to_file(files,
                    [start |-> start, end |-> end, waypoints |-> waypoint_list,
                     path |-> route.path, distance |-> route.distance,
                     weather |-> weather_data.weather_data]))

\* Line 325 for the route find_path returned.
Weather(files, start, end, waypoint_list, route) ==
    RouteData(files, start, end, waypoint_list, route,
              get_weather_along_route(route.path, 20),
              create_folium_map(<<start, end>>),
              create_folium_map(DEFAULT_COORDS))

\* Lines 320-377 for a parsed start, end and waypoint_list, with G the graph
\* find_path has built.
Route(G, files, start, end, waypoint_list, route_type) ==
    Weather(files, start, end, waypoint_list,
            FinishPath(G, AllPoints(start, waypoint_list, end), waypoint_list,
                       IF route_type = "" THEN "optimal" ELSE route_type))

\* The texts of the port fields.
PortTexts ==
    { << >>, <<"0", ",", "0">>, <<"0", ",", " ", "3", "0">>, <<"x">> }

\* The texts of the waypoints field; None is the empty text here.
WaypointTexts ==
    { << >>, <<"3", "0", ",", "6", "0", "\n">>, <<"3", "0">> }

\* The callback is about to run.  A 'predefined-route' trigger comes with no
\* route selected: get_predefined_route is not among the sources.
InitMap ==
    /\ graph = EmptyGraph
    /\ \E triggered \in {"", "calculate-route", "predefined-route"},
          start_port \in PortTexts, end_port \in PortTexts,
          waypoints \in WaypointTexts, route_type \in {"", "fastest", "safest"} :
              call = [op |-> "input", triggered |-> triggered,
                      start_port |-> start_port, end_port |-> end_port,
                      waypoints |-> waypoints, route_type |-> route_type]
    /\ result = NoResult
    /\ held = [ref |-> "data/routes", files |-> << >>]
    /\ memo = NoMemo
    /\ thr = [t \in Threads |-> Idle]

\* update_map, lines 279-377.
UpdateMap ==
    /\ call.op = "input"
    /\ call' = [call EXCEPT !.op = "update_map"]
    /\ \E start \in {parse_coordinates(call.start_port)},
          end \in {parse_coordinates(call.end_port)},
          waypoints \in {parse_waypoints(call.waypoints)} :
          IF call.triggered # "calculate-route"
             \/ call.start_port = << >> \/ call.end_port = << >>
             \/ start.status # "ok" \/ end.status # "ok" \/ waypoints.status # "ok"
          THEN /\ result' = Answer(create_folium_map(DEFAULT_COORDS), "", "",
                                   held.files)
               /\ UNCHANGED <<graph, held>>
          ELSE \E s \in {Degrees(<<start.lat, start.lon>>)},
                  e \in {Degrees(<<end.lat, end.lon>>)},
                  waypoint_list \in {[k \in 1..Len(waypoints.waypoints) |->
                                         Degrees(waypoints.waypoints[k])]} :
                  \E G \in {create_route_network(graph,
                                                 AllPoints(s, waypoint_list, e))} :
                      \E answer \in {Route(G, held.files, s, e, waypoint_list,
                                           call.route_type)} :
                          /\ graph' = G
                          /\ result' = answer
                          /\ held' = [held EXCEPT !.files = answer.files]
    /\ UNCHANGED <<memo, thr>>

NextMap == UpdateMap

SpecMap == InitMap /\ [][NextMap]_vars

(***************************************************************************)
(* The claims.                                                             *)
(***************************************************************************)
IsFindPath == call.op = "find_path"

\* The number of points of the last build.
N == Len(call.points)

\* Every walk from node 0 to node n - 1 along edges of the complete mesh on
\* n nodes that visits at most n nodes.
Walks(n) ==
    { p \in UNION { [1..k -> 0..(n - 1)] : k \in 2..n } :
        /\ p[1] = 0
        /\ p[Len(p)] = n - 1
        /\ \A k \in 1..(Len(p) - 1) : p[k] # p[k + 1] }

\* The sum of the edge attribute attr along the walk p in self.graph.
WalkCost(p, attr) == PathSum(graph, p, attr, 1)

\* The walk is cheapest under attr among the walks from node 0 to node n - 1.
Cheapest(p, attr) ==
    /\ p \in Walks(N)
    /\ \A q \in Walks(N) : WalkCost(p, attr) <= WalkCost(q, attr)

\* C1: for every start, end, waypoints and path_type among fastest, safest
\* and recommended, find_path returns without error a node path from node 0
\* to node n - 1 whose sum of the selected cost field is minimal among all
\* paths from node 0 to node n - 1.
C1_FindPathOptimal ==
    (IsFindPath /\ call.path_type \in KnownTypes)
        => /\ result.status = "ok"
           /\ Cheapest(result.node_path, call.path_type)

\* A safest call that leaves the direct edge for a cheaper detour.
C1_Witness ==
    /\ IsFindPath
    /\ call.path_type = "safest"
    /\ result.status = "ok"
    /\ Len(result.node_path) = 3
    /\ WalkCost(result.node_path, "safest") < WalkCost(<<0, N - 1>>, "safest")

\* C2 as stated: a path_type that is none of fastest, safest, recommended
\* makes find_path fail with InvalidArgument and return no path.
C2_UnknownTypeRejected ==
    (IsFindPath /\ call.path_type \notin KnownTypes)
        => /\ result.status = "InvalidArgument"
           /\ result.path = << >>

\* C2 as amended: with such a path_type find_path raises nothing and returns
\* a node path from node 0 to node n - 1 that is cheapest under the
\* recommended cost.
C2_UnknownTypeFallsBack ==
    (IsFindPath /\ call.path_type \notin KnownTypes)
        => /\ result.status = "ok"
           /\ Len(result.path) >= 2
           /\ Cheapest(result.node_path, "recommended")

\* An 'optimal' call whose path takes a waypoint, the direct edge costing
\* more under recommended.
C2_Witness ==
    /\ IsFindPath
    /\ call.path_type = "optimal"
    /\ result.status = "ok"
    /\ Len(result.node_path) = 3
    /\ WalkCost(result.node_path, "recommended") < WalkCost(<<0, N - 1>>, "recommended")

\* C3: for n >= 2 points the graph create_route_network returns has exactly
\* the nodes 0..n-1, also when points coincide, and exactly one edge per
\* unordered pair of distinct indices, n(n-1)/2 in all.
C3_NodesAndEdges ==
    (call.op \in {"create_route_network", "find_path"} /\ N >= 2)
        => /\ DOMAIN graph.node = 0..(N - 1)
           /\ Cardinality(DOMAIN graph.node) = N
           /\ DOMAIN graph.edge = { e \in (0..(N - 1)) \X (0..(N - 1)) : e[1] < e[2] }
           /\ 2 * Cardinality(DOMAIN graph.edge) = N * (N - 1)

\* A build of at least three points, two of them with equal coordinates.
C3_Witness ==
    /\ call.op = "create_route_network"
    /\ N >= 3
    /\ \E a, b \in 1..N : a # b /\ call.points[a] = call.points[b]
    /\ Cardinality(DOMAIN graph.node) = N

\* C8: every edge create_route_network builds has
\* safest >= recommended >= fastest, and fastest is the edge's distance.
C8_CostOrder ==
    \A e \in DOMAIN graph.edge :
        /\ graph.edge[e].safest >= graph.edge[e].recommended
        /\ graph.edge[e].recommended >= graph.edge[e].fastest
        /\ graph.edge[e].fastest = graph.edge[e].distance * RiskScale

\* An edge of positive distance and risk: the three costs differ.
C8_Witness ==
    \E e \in DOMAIN graph.edge :
        /\ graph.edge[e].safest > graph.edge[e].recommended
        /\ graph.edge[e].recommended > graph.edge[e].fastest

\* The distance and the risk of the edge between the points of indices u and
\* v of the last call, from the coordinates.
RawDistance(u, v) == geodesic(call.points[u + 1], call.points[v + 1])

RawRisk(u, v) ==
    (calculate_risk(call.points[u + 1]) + calculate_risk(call.points[v + 1])) \div 2

RECURSIVE SumTo(_, _)
SumTo(f, k) == IF k = 0 THEN 0 ELSE f[k] + SumTo(f, k - 1)

\* C9: distance_km is the sum of the raw distance of the consecutive edges
\* of node_path, average_risk the mean of their raw risk, and path the input
\* coordinate at each index of node_path, in every mode.
C9_Statistics ==
    (IsFindPath /\ result.status = "ok")
        => LET np == result.node_path
               edges == Len(np) - 1
               dist == [k \in 1..edges |-> RawDistance(np[k], np[k + 1])]
               risk == [k \in 1..edges |-> RawRisk(np[k], np[k + 1])]
           IN  /\ edges >= 1
               /\ result.distance_km = SumTo(dist, edges)
               /\ result.average_risk * edges = SumTo(risk, edges) * AvgScale
               /\ Len(result.path) = Len(np)
               /\ \A k \in 1..Len(np) :
                      result.path[k] = AllPoints(call.start, call.waypoints, call.end)[np[k] + 1]

\* A safest call whose path has two edges of different risk, and whose
\* distance is not its cost.
C9_Witness ==
    /\ IsFindPath
    /\ call.path_type = "safest"
    /\ result.status = "ok"
    /\ Len(result.node_path) = 3
    /\ RawRisk(result.node_path[1], result.node_path[2])
         # RawRisk(result.node_path[2], result.node_path[3])
    /\ result.distance_km * RiskScale < WalkCost(result.node_path, "safest")

\* The coordinate node i of self.graph carries.
NodePoint(i) == <<graph.node[i].lat, graph.node[i].lon>>

\* C10: in every find_path call node 0 carries start, node n - 1 carries
\* end, the waypoints are at the indices 1..n-2 in their input order, and
\* the returned path begins with start and ends with end.
C10_EndsAndWaypoints ==
    IsFindPath
        => LET n == Len(call.waypoints) + 2
           IN  /\ DOMAIN graph.node = 0..(n - 1)
               /\ NodePoint(0) = call.start
               /\ NodePoint(n - 1) = call.end
               /\ \A k \in 1..Len(call.waypoints) : NodePoint(k) = call.waypoints[k]
               /\ result.status = "ok"
               /\ result.path[1] = call.start
               /\ result.path[Len(result.path)] = call.end

\* A call with two different waypoints and different start and end, whose
\* path passes through a waypoint.
C10_Witness ==
    /\ IsFindPath
    /\ Len(call.waypoints) = 2
    /\ call.waypoints[1] # call.waypoints[2]
    /\ call.start # call.end
    /\ result.status = "ok"
    /\ Len(result.path) >= 3

C5_ReturnedGraphUnchanged ==
    (held.ref = "self.graph") => graph = held.snapshot

\* C6: two find_path calls with equal start, end, waypoints and path_type
\* return the same path, node_path, distance_km and average_risk, whatever
\* builds and calls were made on the instance in between, also when paths
\* tie on cost.
C6_EqualArgumentsEqualResult ==
    (IsFindPath /\ SameArguments(call, memo.call))
        => /\ result.status = memo.result.status
           /\ result.path = memo.result.path
           /\ result.node_path = memo.result.node_path
           /\ result.distance_km = memo.result.distance_km
           /\ result.average_risk = memo.result.average_risk

\* A call repeated after builds of more and of fewer points, whose path
\* ties on cost with another walk.
C6_Witness ==
    /\ IsFindPath
    /\ SameArguments(call, memo.call)
    /\ memo.more
    /\ memo.fewer
    /\ result.status = "ok"
    /\ \E q \in Walks(N) :
          /\ q # result.node_path
          /\ WalkCost(q, WeightKey(call.path_type))
               = WalkCost(result.node_path, WeightKey(call.path_type))

\* C4: two find_path calls that run concurrently on the same instance each
\* return the result they would return when run alone.
C4_ConcurrentCallsIsolated ==
    \A t \in Threads :
        thr[t].pc = "done" => thr[t].result = AloneResult(t)

\* C11: find_path whose start and end are the same point returns a path of
\* a single node, with distance_km 0 and average_risk 0.
C11_SamePointSingleNode ==
    (IsFindPath /\ call.start = call.end)
        => /\ result.status = "ok"
           /\ Len(result.path) = 1
           /\ result.distance_km = 0
           /\ result.average_risk = 0

\* The edge distances of self.graph satisfy the triangle inequality.
TriangleInequality ==
    \A i, j, k \in DOMAIN graph.node :
        (i # j /\ j # k /\ i # k)
            => graph.edge[EdgeKey(i, k)].distance
                 <= graph.edge[EdgeKey(i, j)].distance
                      + graph.edge[EdgeKey(j, k)].distance

\* C12: in fastest mode with no waypoints find_path returns exactly
\* [start, end] with the distance of the direct edge; with waypoints and
\* edge distances that satisfy the triangle inequality distance_km is still
\* the distance of the direct edge from start to end.
C12_FastestIsDirect ==
    (IsFindPath /\ call.path_type = "fastest")
        => /\ result.status = "ok"
           /\ call.waypoints = << >>
                => /\ result.path = <<call.start, call.end>>
                   /\ result.node_path = <<0, 1>>
                   /\ result.distance_km = geodesic(call.start, call.end)
           /\ TriangleInequality
                => result.distance_km = geodesic(call.start, call.end)

\* A fastest call with two waypoints, one of them off the straight line.
C12_Witness ==
    /\ IsFindPath
    /\ call.path_type = "fastest"
    /\ Len(call.waypoints) = 2
    /\ TriangleInequality
    /\ \E k \in 1..2 :
          geodesic(call.start, call.waypoints[k]) + geodesic(call.waypoints[k], call.end)
              > geodesic(call.start, call.end)
    /\ result.status = "ok"
    /\ result.distance_km > 0

\* C13: every waypoint passed to find_path is in the returned path.
C13_WaypointsInPath ==
    (IsFindPath /\ result.status = "ok")
        => \A k \in 1..Len(call.waypoints) :
              \E m \in 1..Len(result.path) : result.path[m] = call.waypoints[k]

\* C18: find_path with an unrecognised path_type, such as 'optimal', raises
\* nothing and returns the path, node_path, distance_km and average_risk of
\* the same call with path_type 'recommended'.
C18_UnknownSameAsRecommended ==
    (IsFindPath /\ call.path_type \notin KnownTypes)
        => LET rec == FinishPath(graph, AllPoints(call.start, call.waypoints, call.end),
                                 call.waypoints, "recommended")
           IN  /\ result.status = "ok"
               /\ rec.status = "ok"
               /\ result.path = rec.path
               /\ result.node_path = rec.node_path
               /\ result.distance_km = rec.distance_km
               /\ result.average_risk = rec.average_risk

\* An 'optimal' call for which the safest and the recommended route differ.
C18_Witness ==
    /\ IsFindPath
    /\ call.path_type = "optimal"
    /\ result.status = "ok"
    /\ result.node_path = <<0, N - 1>>
    /\ \E q \in Walks(N) : WalkCost(q, "safest") < WalkCost(result.node_path, "safest")

\* C19: every edge (i, j) create_route_network builds stores as risk the
\* mean of the risks of nodes i and j, fastest = distance,
\* safest = distance * (1 + 5 * risk), recommended = distance * (1 + risk).
C19_EdgeAttributes ==
    \A e \in DOMAIN graph.edge :
        LET a == graph.edge[e]
        IN  /\ 2 * a.risk = graph.node[e[1]].risk + graph.node[e[2]].risk
            /\ a.fastest = a.distance * RiskScale
            /\ a.safest - a.fastest = 5 * (a.distance * a.risk)
            /\ a.recommended - a.fastest = a.distance * a.risk

\* An edge of positive distance between nodes of different risk.
C19_Witness ==
    \E e \in DOMAIN graph.edge :
        /\ graph.edge[e].distance > 0
        /\ graph.node[e[1]].risk # graph.node[e[2]].risk
        /\ graph.edge[e].risk > 0

\* C14: a point exactly at the centre of a risk zone gets that zone's
\* risk_level as its risk (0.8 at (20, -40)), and a point whose distance to
\* a zone's centre is the radius or more gets nothing from that zone: its
\* risk is 0 when it is inside no other zone.
C14_CentreAndBorder ==
    (call.op = "calculate_risk")
        => LET point == call.points[1]
               outside(k) == geodesic(point, risk_zones[k].coordinates)
                                 >= risk_zones[k].radius
           IN  /\ \A k \in 1..Len(risk_zones) :
                     point = risk_zones[k].coordinates
                         => result.risk * 10 = risk_zones[k].risk_level * RiskScale
               /\ point = <<20, -40>> => result.risk * 10 = 8 * RiskScale
               /\ \A k \in 1..Len(risk_zones) :
                     (outside(k) /\ \A m \in 1..Len(risk_zones) : m # k => outside(m))
                         => result.risk = 0

\* The centre of the first zone, with risk 0.8.
C14_Witness ==
    /\ call.op = "calculate_risk"
    /\ call.points[1] = <<20, -40>>
    /\ result.risk * 10 = 8 * RiskScale

\* A point exactly on the border of a zone, with risk 0.
C14_BorderReached ==
    /\ call.op = "calculate_risk"
    /\ \E k \in 1..Len(risk_zones) :
          geodesic(call.points[1], risk_zones[k].coordinates) = risk_zones[k].radius
    /\ result.risk = 0

\* The nodes of G that a walk along edges of G reaches from the nodes S.
RECURSIVE ReachFrom(_, _)
ReachFrom(G, S) ==
    LET T == S \cup { w \in DOMAIN G.node :
                        \E u \in S : EdgeKey(u, w) \in DOMAIN G.edge }
    IN  IF T = S THEN S ELSE ReachFrom(G, T)

\* Source and target are nodes of G and no walk of G joins them.
NoPathIn(G, source, target) ==
    /\ HasNode(G, source)
    /\ HasNode(G, target)
    /\ target \notin ReachFrom(G, {source})

C16_ParseCoordinates ==
    (call.op = "parse_coordinates")
        => LET fields == call.fields
               lit(k) == Literals[fields[k][1]]
               valid == /\ Len(fields) = 2
                        /\ lit(1).kind = "finite"
                        /\ lit(2).kind = "finite"
                        /\ -90 * ValueScale <= lit(1).value
                        /\ lit(1).value <= 90 * ValueScale
                        /\ -180 * ValueScale <= lit(2).value
                        /\ lit(2).value <= 180 * ValueScale
           IN  IF valid
               THEN result = [status |-> "ok", lat |-> lit(1).value,
                              lon |-> lit(2).value]
               ELSE result = [status |-> "ValueError"]

\* " -90 , 180 " has been parsed to the corner (-90, 180).
C16_Witness ==
    /\ call.op = "parse_coordinates"
    /\ call.coord_str = <<" ", "-", "9", "0", " ", ",", " ", "1", "8", "0", " ">>
    /\ result = [status |-> "ok", lat |-> -90 * ValueScale, lon |-> 180 * ValueScale]

\* "90,181" has been rejected for its longitude alone.
C16_OutOfRangeReached ==
    /\ call.op = "parse_coordinates"
    /\ call.coord_str = <<"9", "0", ",", "1", "8", "1">>
    /\ result.status = "ValueError"

\* C17: the distance used for edges is symmetric and zero on identical
\* points: distance(a, b) = distance(b, a) and distance(a, a) = 0, for the
\* haversine distance of routing.graph and of the weather simulator and for
\* the distance of the route network, so an edge carries the same distance
\* whichever endpoint is taken first.
C17_DistanceSymmetric ==
    /\ (call.op = "haversine_km")
          => /\ result.km = haversine_km(call.end, call.start)
             /\ call.start = call.end => result.km = 0
    /\ (call.op = "_haversine")
          => /\ result.km = _haversine(call.end, call.start)
             /\ call.start = call.end => result.km = 0
    /\ \A a \in HavPoints :
          /\ geodesic(a, a) = 0
          /\ call.op \in {"haversine_km", "_haversine"}
                => geodesic(call.start, a) = geodesic(a, call.start)

\* A quarter of the equator, (0, 0) to (0, 90), has been measured.
C17_Witness ==
    /\ call.op = "haversine_km"
    /\ call.start = <<0, 0>>
    /\ call.end = <<0, 90>>
    /\ result.km > 10000
    /\ result.km < 10015

\* Two points on different latitudes and longitudes have been measured by
\* the simulator, and so have two identical points.
C17_SimulatorReached ==
    /\ call.op = "_haversine"
    /\ call.start = <<0, 0>>
    /\ call.end = <<60, 30>>
    /\ result.km > 0

\* C20: build_graph returns a graph whose node count equals the number of
\* ports supplied and whose edge count is n(n-1)/2, for every sequence of n
\* ports, including sequences in which two ports share a name and inputs
\* that can be iterated only once.
C20_BuildGraphCounts ==
    (call.op = "build_graph")
        => LET n == Len(call.ports)
           IN  /\ Cardinality(DOMAIN result.graph.node) = n
               /\ Cardinality(DOMAIN result.graph.edge) = (n * (n - 1)) \div 2

\* The counts are right for a list of ports with distinct names.
C20_ListOfDistinctNames ==
    (/\ call.op = "build_graph"
     /\ call.kind = "list"
     /\ \A i, j \in 1..Len(call.ports) :
           call.ports[i].name = call.ports[j].name => i = j)
        => LET n == Len(call.ports)
           IN  /\ Cardinality(DOMAIN result.graph.node) = n
               /\ Cardinality(DOMAIN result.graph.edge) = (n * (n - 1)) \div 2

\* Three ports read from an iterator have given three nodes and no edge.
C20_IteratorReached ==
    /\ call.op = "build_graph"
    /\ call.kind = "iterator"
    /\ Len(call.ports) = 3
    /\ Cardinality(DOMAIN result.graph.node) = 3
    /\ result.graph.edge = << >>

\* Two ports named alike in a list have given one node with a self-loop.
C20_SharedNameReached ==
    /\ call.op = "build_graph"
    /\ call.kind = "list"
    /\ Len(call.ports) = 2
    /\ DOMAIN result.graph.node = {"A"}
    /\ DOMAIN result.graph.edge = {{"A"}}

\* C24: for the same start, end and waypoints, the distance_km that
\* find_path returns in fastest mode is at most the distance_km it returns
\* in safest mode and in recommended mode, and the safest cost summed over
\* the safest-mode path is at most the safest cost summed over the
\* fastest-mode path.
C24_ModesCompared ==
    (IsFindPath /\ result.status = "ok")
        => LET InMode(path_type) ==
                   IF path_type = call.path_type THEN result
                   ELSE FinishPath(graph, call.points, call.waypoints, path_type)
               fast == InMode("fastest")
               safe == InMode("safest")
               reco == InMode("recommended")
           IN  /\ fast.status = "ok" /\ safe.status = "ok" /\ reco.status = "ok"
               /\ fast.distance_km <= safe.distance_km
               /\ fast.distance_km <= reco.distance_km
               /\ PathSum(graph, safe.node_path, "safest", 1)
                     <= PathSum(graph, fast.node_path, "safest", 1)

\* A safest call that took a longer and safer route than the fastest one.
C24_Witness ==
    /\ IsFindPath
    /\ call.path_type = "safest"
    /\ result.status = "ok"
    /\ LET fast == FinishPath(graph, call.points, call.waypoints, "fastest")
       IN  /\ fast.distance_km < result.distance_km
           /\ PathSum(graph, result.node_path, "safest", 1)
                 < PathSum(graph, fast.node_path, "safest", 1)

\* C25: the node_path returned by find_path is a simple path from node 0 to
\* node n-1: it has between 2 and n entries, every entry is an index in
\* 0..n-1, no index occurs twice, and its intermediate entries are waypoint
\* indices only.
C25_NodePathSimple ==
    (IsFindPath /\ result.status = "ok")
        => LET n == Len(call.points)
               node_path == result.node_path
               len == Len(node_path)
           IN  /\ 2 <= len
               /\ len <= n
               /\ \A k \in 1..len : node_path[k] \in 0..(n - 1)
               /\ \A k, m \in 1..len : node_path[k] = node_path[m] => k = m
               /\ node_path[1] = 0
               /\ node_path[len] = n - 1
               /\ \A k \in 2..(len - 1) : node_path[k] \in 1..(n - 2)

\* A route of three nodes through one of two waypoints.
C25_Witness ==
    /\ IsFindPath
    /\ result.status = "ok"
    /\ Len(call.points) = 4
    /\ Len(result.node_path) = 3
    /\ result.node_path[2] \in {1, 2}

\* C26: safest_path and recommended_path leave the graph passed to them
\* unchanged: after either call every edge of the caller's graph has the
\* attribute keys and values it had before (no risk_cost, no combo_cost),
\* so a later fastest_path on that graph returns what it returned before.
C26_CallerGraphUnchanged ==
    /\ graph = held.snapshot
    /\ \A e \in DOMAIN graph.edge : DOMAIN graph.store[graph.edge[e]] = {"distance"}
    /\ (call.op = "fastest_path" /\ memo.call.op = "fastest_path")
          => /\ result.status = memo.result.status
             /\ result.path = memo.result.path

\* fastest_path has answered again after a safest_path or recommended_path
\* call, as it did at first, and the caller's graph still has its six edges.
C26_Witness ==
    /\ call.op = "fastest_path"
    /\ memo.call.op = "fastest_path"
    /\ memo.more
    /\ result.status = "ok"
    /\ result.path = memo.result.path
    /\ Cardinality(DOMAIN graph.edge) = 6

\* The edges of the call in the state, with the distance, the risk and the
\* three weights of each: the one the call used, and the other two for the
\* same distance and risk, all times WeightScale.
EdgeWeights ==
    { [distance    |-> graph.store[graph.edge[e]].distance,
       risk        |-> result.risks[e],
       fastest     |-> graph.store[graph.edge[e]].distance * WeightScale,
       safest      |-> IF call.op = "safest_path" THEN result.weights[e]
                       ELSE risk_cost(graph.store[graph.edge[e]].distance,
                                      result.risks[e]),
       recommended |-> IF call.op = "recommended_path" THEN result.weights[e]
                       ELSE combo_cost(alpha, graph.store[graph.edge[e]].distance,
                                       result.risks[e]),
       alpha       |-> alpha] :
      e \in DOMAIN result.risks,
      alpha \in IF call.op = "recommended_path" THEN {call.alpha} ELSE 0..AlphaDen }

WeighedCall ==
    /\ call.op \in {"safest_path", "recommended_path"}
    /\ result.status = "ok"
    /\ call.alpha \in 0..AlphaDen

\* C21 as stated: for every edge with risk >= 0 and 0 <= alpha <= 1 the
\* safest weight is >= the recommended weight, which is >= the fastest
\* weight, the edge distance; and the safest weight is strictly greater
\* than the recommended weight whenever risk > 0 and alpha > 0.
C21_WeightsOrderedStrictly ==
    WeighedCall
        => \A w \in EdgeWeights :
              w.risk >= 0
                 => /\ w.safest >= w.recommended
                    /\ w.recommended >= w.fastest
                    /\ (w.risk > 0 /\ w.alpha > 0) => w.safest > w.recommended

\* C21 amended: for every edge with risk >= 0 and 0 <= alpha <= 1 the
\* safest weight is >= the recommended weight, which is >= the fastest
\* weight, the edge distance; the safest weight is strictly greater than
\* the recommended weight whenever risk > 0, alpha > 0 and the edge has a
\* distance > 0; on an edge of distance 0 the three weights are all 0.
C21_WeightsOrdered ==
    WeighedCall
        => \A w \in EdgeWeights :
              /\ w.risk >= 0
                    => /\ w.safest >= w.recommended
                       /\ w.recommended >= w.fastest
                       /\ (w.risk > 0 /\ w.alpha > 0 /\ w.distance > 0)
                             => w.safest > w.recommended
              /\ w.distance = 0
                    => w.safest = 0 /\ w.recommended = 0 /\ w.fastest = 0

\* A recommended_path call with alpha = 1/2 over a graph that has an edge
\* of distance 0 with a risk > 0 and an edge of distance > 0 with a risk
\* > 0.
C21_Witness ==
    /\ WeighedCall
    /\ call.op = "recommended_path"
    /\ 2 * call.alpha = AlphaDen
    /\ \E w \in EdgeWeights : w.distance = 0 /\ w.risk > 0 /\ w.safest = w.recommended
    /\ \E w \in EdgeWeights : w.distance > 0 /\ w.risk > 0 /\ w.safest > w.recommended

\* What C23 says of a call: it returns min(50, len(coordinates))
\* observations in route order, the first with distance_km 0 and
\* time_elapsed_hours 0, and distance_km and time_elapsed_hours never
\* decrease along the list.
Observed ==
    LET n == Len(call.coordinates)
        data == result.weather_data
    IN  /\ result.status = "ok"
        /\ Len(data) = Min2(MaxSamples, n)
        /\ \A k \in 1..Len(data) :
              /\ data[k].index \in 0..(n - 1)
              /\ data[k].latitude = call.coordinates[data[k].index + 1][1]
              /\ data[k].longitude = call.coordinates[data[k].index + 1][2]
        /\ \A k \in 1..(Len(data) - 1) :
              /\ data[k].index < data[k + 1].index
              /\ data[k].distance_km <= data[k + 1].distance_km
              /\ data[k].time_elapsed_hours <= data[k + 1].time_elapsed_hours
        /\ data[1].index = 0
        /\ data[1].distance_km = 0
        /\ data[1].time_elapsed_hours = 0

\* C23: for every non-empty list of coordinates, a single point and a route
\* whose points all coincide included, get_weather_along_route returns
\* without error min(50, len(coordinates)) observations in route order,
\* the first with distance_km 0 and time_elapsed_hours 0, and with
\* distance_km and time_elapsed_hours non-decreasing along the list.
C23_WeatherAlongRoute ==
    (call.op = "get_weather_along_route") => Observed

\* The same holds of every route that has some length.
C23_RouteWithLength ==
    (/\ call.op = "get_weather_along_route"
     /\ \E k \in 1..Len(call.coordinates) : call.coordinates[k] # call.coordinates[1])
        => Observed

\* A single point has raised ZeroDivisionError.
C23_SinglePointReached ==
    /\ call.op = "get_weather_along_route"
    /\ Len(call.coordinates) = 1
    /\ result.status = "ZeroDivisionError"

\* A route of more than 50 points has given 50 observations.
C23_LongRouteReached ==
    /\ call.op = "get_weather_along_route"
    /\ Len(call.coordinates) = 2 * MaxSamples
    /\ result.status = "ok"
    /\ Len(result.weather_data) = MaxSamples

\* C22: when update_map is triggered by calculate-route with start and end
\* strings that parse and find_path returns a route, the callback saves one
\* route record containing start, end, waypoints, path, distance and
\* weather through save_route_to_file and returns a map of the computed
\* route, not the default map.
C22_RouteSavedAndShown ==
    (/\ call.op = "update_map"
     /\ call.triggered = "calculate-route"
     /\ result.found = "ok")
        => /\ result.map # create_folium_map(DEFAULT_COORDS)
           /\ Len(held.files) = 1
           /\ DOMAIN held.files[1]
                 = {"start", "end", "waypoints", "path", "distance", "weather"}

\* What the callback does in that case: it writes no file and answers with
\* the default map, for an error its except clause has caught.
C22_RouteLost ==
    (/\ call.op = "update_map"
     /\ call.triggered = "calculate-route"
     /\ result.found = "ok")
        => /\ result.map = create_folium_map(DEFAULT_COORDS)
           /\ held.files = << >>
           /\ result.error \in {"KeyError", "ZeroDivisionError"}

\* A route from (0, 0) to (0, 30) was found and lost to the KeyError.
C22_KeyErrorReached ==
    /\ call.op = "update_map"
    /\ call.triggered = "calculate-route"
    /\ call.start_port = <<"0", ",", "0">>
    /\ call.end_port = <<"0", ",", " ", "3", "0">>
    /\ result.found = "ok"
    /\ result.error = "KeyError"
    /\ Cardinality(DOMAIN graph.node) = 2

====
